---- MODULE Spec2Model ----
(***************************************************************************)
(* Two variants of the distributed k-mer hash table of this repository:    *)
(*   src/kmer_hash.cpp : open addressing over upcxx global arrays with an   *)
(*                       atomic compare_exchange on the used flags;         *)
(*   src/hash_map.hpp  : hash-partitioned chaining with a collective        *)
(*                       count / pointer / rput exchange (process_kmers).   *)
(* Spec is the open-addressing variant, SpecChain the chaining variant.    *)
(* A rank is one single-threaded process; every line ending in .wait() or  *)
(* barrier() is one step of that rank.                                     *)
(***************************************************************************)
EXTENDS Integers, Sequences, FiniteSets, TLC

\* ------------------------------------------------------------------ bounds
RankN == 2          \* upcxx::rank_n()
TableSize == 2      \* the size every rank passes to HashMap(size)
MaxOps == 3         \* open addressing: insert/find calls of the whole cohort;
                    \* chaining: find calls of the whole cohort
MaxInserts == 2     \* chaining: insert calls (rounds) issued by one rank
MaxRanks == 3       \* size computation: rank counts 1 .. MaxRanks
MaxSize == 5        \* size computation: constructor arguments 1 .. MaxSize
MaxHash == 4        \* size computation: hash values 0 .. MaxHash

Ranks == 0 .. (RankN - 1)
Slots == 0 .. (TableSize - 1)

\* ------------------------------------------------------------------ records
\* kmer_pair: a key (pkmer_t kmer) and payload bytes; kmer_t.hpp is not part
\* of the sources, so a key is modelled as a small number hashing to itself.
Keys == {1, 2, 3}
Exts == {"A", "B"}
KmerPairs == {p \in [kmer : Keys, ext : Exts] : p.ext = "B" => p.kmer = 1}
Blank == [kmer |-> -1, ext |-> "-"]      \* the caller's out record before find
Junk == [kmer |-> -2, ext |-> "?"]       \* bytes that are no record at all
Unwritten == [kmer |-> -3, ext |-> "u"]  \* a data cell nobody wrote yet
Hash(k) == k

\* upcxx::new_array<T>(n) default-initialises its elements: an int32_t or a
\* (trivially constructible) kmer_pair holds an indeterminate value until it
\* is written.  A used cell nobody wrote yet holds Indeterminate; the first
\* access fixes its content to one of IndeterminateInt32 (zero or non-zero,
\* all the code tells apart).  A data cell nobody wrote yet holds Unwritten
\* and reads as any of IndeterminateKmerPair.
Indeterminate == -1
IndeterminateInt32 == {0, 1}
IndeterminateKmerPair == KmerPairs \cup {Junk}
ReadInt32(cell) == IF cell = Indeterminate THEN IndeterminateInt32 ELSE {cell}

VARIABLES
    pc,          \* each rank's position
    bar,         \* number of upcxx::barrier() calls each rank has entered
    phase,       \* "build" (inserts, finds) or "query" (finds only) per rank
    opsLeft,     \* calls the cohort may still issue
    kmer,        \* insert's argument on each rank
    key_kmer,    \* find's key on each rank
    val_kmer,    \* find's out record on each rank
    probe,       \* insert/find loop counter on each rank
    ret,         \* the last returned call of each rank: [op, val]
    used,        \* used[r][s]: rank r's int32_t array reached through `used`
    data,        \* data[r][s]: rank r's kmer_pair array reached through `data`
    passed,      \* history: records passed to insert so far
    okIns,       \* history: records whose insert returned true
    nTrue,       \* history: number of insert calls that returned true
    commits,     \* history: commits[r][s] = rputs of a record into data[r][s]
    \* chaining variant (src/hash_map.hpp)
    buckets,     \* buckets[r][b]: the chain of bucket b on rank r, head first
    recv_ptrs,   \* recv_ptrs[r][i]
    send_ptrs,   \* send_ptrs[r][i]
    recv_counts, \* recv_counts[r][i]
    send_counts, \* send_counts[r][i]
    heap,        \* heap[r][a]: the kmer_pair array at address a of rank r's
                 \* shared segment; <<>> when the address is free
    idx,         \* the loop variable i of process_kmers on each rank
    rpcOut,      \* the rpc each rank has issued and is waiting on
    insLeft,     \* insert calls each rank may still issue (chaining)
    \* size computation of the chaining variant (SpecSize)
    rank_n,      \* upcxx::rank_n() of the run
    ctor_size,   \* the argument `size` every rank passes to HashMap(size)
    my_size,     \* my_size[r]: member my_size of rank r, NotSet before HashMap()
    total_size,  \* total_size[r]: member total_size of rank r
    szOut        \* the last value returned by a size or routing function

chVars == <<buckets, recv_ptrs, send_ptrs, recv_counts, send_counts, heap,
            idx, rpcOut, insLeft>>
oaMem == <<used, data>>
hist == <<passed, okIns, nTrue, commits>>
szVars == <<rank_n, ctor_size, my_size, total_size, szOut>>

vars == <<pc, bar, phase, opsLeft, kmer, key_kmer, val_kmer, probe, ret,
          used, data, passed, okIns, nTrue, commits, chVars, szVars>>

NoRet == [op |-> "none", val |-> FALSE]

\* ranks of the size computation, and no size or routing function called yet
SizeRanks == 0 .. (MaxRanks - 1)
NoOut == [fn |-> "none", me |-> 0, arg |-> 0, val |-> 0]

\* size()
size == TableSize

\* ------------------------------------------------------------------ barrier
\* upcxx::barrier(): a rank that entered its b-th barrier leaves it once every
\* rank has entered its b-th barrier, whichever call site each rank is at.
BarrierPcs == {"ctor_barrier", "phase_barrier", "final_barrier",
               "pk_barrier1", "pk_barrier2", "pk_barrier3", "pk_barrier4"}
BarrierDone(r) == \A q \in Ranks : bar[q] >= bar[r]
AfterBarrier(p) ==
    CASE p = "ctor_barrier" -> "idle"
      [] p = "phase_barrier" -> "idle"
      [] p = "final_barrier" -> "done"
      [] p = "pk_barrier1" -> "ptr_loop"
      [] p = "pk_barrier2" -> "send_loop"
      [] p = "pk_barrier3" -> "recv_loop"
      [] p = "pk_barrier4" -> "idle"

\* Leaving process_kmers' final barrier is the return of the chaining insert:
\* `process_kmers(kmers); return true;`.
BarrierLeave(r) ==
    /\ pc[r] \in BarrierPcs
    /\ BarrierDone(r)
    /\ pc' = [pc EXCEPT ![r] = AfterBarrier(pc[r])]
    /\ phase' = [phase EXCEPT ![r] = IF pc[r] = "phase_barrier" THEN "query" ELSE @]
    /\ idx' = [idx EXCEPT ![r] = 0]
    /\ IF pc[r] = "pk_barrier4"
         THEN /\ ret' = [ret EXCEPT ![r] = [op |-> "insert", val |-> TRUE]]
              /\ okIns' = okIns \cup {kmer[r]}
              /\ kmer' = [kmer EXCEPT ![r] = Blank]
         ELSE /\ ret' = [ret EXCEPT ![r] = NoRet]
              /\ UNCHANGED <<okIns, kmer>>
    /\ UNCHANGED <<szVars, bar, opsLeft, key_kmer, val_kmer, probe, oaMem, passed, nTrue,
                   commits, buckets, recv_ptrs, send_ptrs, recv_counts,
                   send_counts, heap, rpcOut, insLeft>>

\* The driver's barrier between the insert phase and the find phase.
PhaseBarrier(r) ==
    /\ pc[r] = "idle"
    /\ phase[r] = "build"
    /\ pc' = [pc EXCEPT ![r] = "phase_barrier"]
    /\ bar' = [bar EXCEPT ![r] = @ + 1]
    /\ UNCHANGED <<szVars, chVars, phase, opsLeft, kmer, key_kmer, val_kmer, probe, ret, oaMem, hist>>

\* The driver's closing barrier after the find phase.
FinalBarrier(r) ==
    /\ pc[r] = "idle"
    /\ phase[r] = "query"
    /\ pc' = [pc EXCEPT ![r] = "final_barrier"]
    /\ bar' = [bar EXCEPT ![r] = @ + 1]
    /\ UNCHANGED <<szVars, chVars, phase, opsLeft, kmer, key_kmer, val_kmer, probe, ret, oaMem, hist>>

\* ------------------------------------------------- open addressing: atomics
\* upcxx::atomic_domain<int32_t>::compare_exchange(p, val1, val2, order):
\* if *p == val1 then *p = val2; the future it returns carries the value *p
\* held BEFORE the operation (a fetching compare-and-swap), as an int32_t.
compare_exchange_clobber(cur, val1, val2) ==
    [mem |-> IF cur = val1 THEN val2 ELSE val1, old |-> cur]

compare_exchange(cur, val1, val2) ==
    [mem |-> IF cur = val1 THEN val2 ELSE cur, old |-> cur]

\* int32_t -> bool in `success = ad.compare_exchange(...).wait()`
ToBool(i) == i # 0

SlotOf(h, p) == (h + p) % size

\* ---------------------------------------------- open addressing: constructor
\* HashMap(size): new_array twice (contents indeterminate, see Init),
\* rank 0 alone rputs 0 into the used array its own `used` member points to,
\* then every rank enters the barrier.
OA_Construct(r) ==
    /\ pc[r] = "ctor"
    /\ used' = IF r = 0
                 THEN [used EXCEPT ![r] = [s \in Slots |-> 0]]
                 ELSE used
    /\ my_size' = [my_size EXCEPT ![r] = ctor_size]
    /\ pc' = [pc EXCEPT ![r] = "ctor_barrier"]
    /\ bar' = [bar EXCEPT ![r] = @ + 1]
    /\ UNCHANGED <<rank_n, ctor_size, total_size, szOut>>
    /\ UNCHANGED <<chVars, phase, opsLeft, kmer, key_kmer, val_kmer, probe, ret, data, hist>>

\* ---------------------------------------------------- open addressing: insert
OA_InsertCall(r, rec) ==
    /\ pc[r] = "idle"
    /\ phase[r] = "build"
    /\ opsLeft > 0
    /\ opsLeft' = opsLeft - 1
    /\ kmer' = [kmer EXCEPT ![r] = rec]
    /\ probe' = [probe EXCEPT ![r] = 0]
    /\ ret' = [ret EXCEPT ![r] = NoRet]
    /\ passed' = passed \cup {rec}
    /\ pc' = [pc EXCEPT ![r] = "ins_cas"]
    /\ UNCHANGED <<szVars, chVars, bar, phase, key_kmer, val_kmer, oaMem, okIns, nTrue, commits>>

\* One iteration of the while loop up to the test of `success`.
OA_InsertCAS(r) ==
    /\ pc[r] = "ins_cas"
    /\ probe[r] < size
    /\ LET slot == SlotOf(Hash(kmer[r].kmer), probe[r])
       IN \E cur \in ReadInt32(used[r][slot]) :
            LET cas == compare_exchange(cur, 0, 1)
                success == ToBool(cas.old)
            IN /\ used' = [used EXCEPT ![r][slot] = cas.mem]
               /\ IF success
                    THEN /\ pc' = [pc EXCEPT ![r] = "ins_rput"]
                         /\ probe' = probe
                    ELSE /\ pc' = pc
                         /\ probe' = [probe EXCEPT ![r] = @ + 1]
    /\ UNCHANGED <<szVars, chVars, bar, phase, opsLeft, kmer, key_kmer, val_kmer, ret, data, hist>>

\* upcxx::rput(kmer, data + slot).wait(); break; return success;
OA_InsertRput(r) ==
    /\ pc[r] = "ins_rput"
    /\ LET slot == SlotOf(Hash(kmer[r].kmer), probe[r])
       IN /\ data' = [data EXCEPT ![r][slot] = kmer[r]]
          /\ commits' = [commits EXCEPT ![r][slot] = IF @ < 2 THEN @ + 1 ELSE @]
    /\ ret' = [ret EXCEPT ![r] = [op |-> "insert", val |-> TRUE]]
    /\ okIns' = okIns \cup {kmer[r]}
    /\ nTrue' = nTrue + 1
    /\ pc' = [pc EXCEPT ![r] = "idle"]
    /\ kmer' = [kmer EXCEPT ![r] = Blank]
    /\ probe' = [probe EXCEPT ![r] = 0]
    /\ UNCHANGED <<szVars, chVars, bar, phase, opsLeft, key_kmer, val_kmer, used, passed>>

\* The loop ends with probe == size(): return success (false).
OA_InsertFail(r) ==
    /\ pc[r] = "ins_cas"
    /\ probe[r] >= size
    /\ ret' = [ret EXCEPT ![r] = [op |-> "insert", val |-> FALSE]]
    /\ pc' = [pc EXCEPT ![r] = "idle"]
    /\ kmer' = [kmer EXCEPT ![r] = Blank]
    /\ probe' = [probe EXCEPT ![r] = 0]
    /\ UNCHANGED <<szVars, chVars, bar, phase, opsLeft, key_kmer, val_kmer, oaMem, hist>>

\* ------------------------------------------------------ open addressing: find
OA_FindCall(r, k) ==
    /\ pc[r] = "idle"
    /\ opsLeft > 0
    /\ opsLeft' = opsLeft - 1
    /\ key_kmer' = [key_kmer EXCEPT ![r] = k]
    /\ val_kmer' = [val_kmer EXCEPT ![r] = Blank]
    /\ probe' = [probe EXCEPT ![r] = 0]
    /\ ret' = [ret EXCEPT ![r] = NoRet]
    /\ pc' = [pc EXCEPT ![r] = "find_load"]
    /\ UNCHANGED <<szVars, chVars, bar, phase, kmer, oaMem, hist>>

\* is_used = ad.load(used + slot).wait(); if (is_used) ... else ++probe
OA_FindLoad(r) ==
    /\ pc[r] = "find_load"
    /\ probe[r] < size
    /\ LET slot == SlotOf(Hash(key_kmer[r]), probe[r])
       IN \E is_used \in ReadInt32(used[r][slot]) :
            /\ used' = [used EXCEPT ![r][slot] = is_used]
            /\ IF ToBool(is_used)
                 THEN /\ pc' = [pc EXCEPT ![r] = "find_rget"]
                      /\ probe' = probe
                 ELSE /\ pc' = pc
                      /\ probe' = [probe EXCEPT ![r] = @ + 1]
    /\ UNCHANGED <<szVars, chVars, bar, phase, opsLeft, kmer, key_kmer, val_kmer, ret, data, hist>>

\* What rget(data + slot) yields: the stored record, or anything at all when
\* the cell was never written.
Rget(cell) == IF cell = Unwritten THEN IndeterminateKmerPair ELSE {cell}

\* val_kmer = rget(data + slot).wait(); if (val_kmer.kmer == key_kmer) ...
OA_FindRget(r) ==
    /\ pc[r] = "find_rget"
    /\ LET slot == SlotOf(Hash(key_kmer[r]), probe[r])
       IN \E v \in Rget(data[r][slot]) :
            /\ val_kmer' = [val_kmer EXCEPT ![r] = v]
            /\ IF v.kmer = key_kmer[r]
                 THEN /\ ret' = [ret EXCEPT ![r] = [op |-> "find", val |-> TRUE]]
                      /\ pc' = [pc EXCEPT ![r] = "idle"]
                      /\ probe' = [probe EXCEPT ![r] = 0]
                 ELSE /\ ret' = ret
                      /\ pc' = [pc EXCEPT ![r] = "find_load"]
                      /\ probe' = [probe EXCEPT ![r] = @ + 1]
    /\ UNCHANGED <<szVars, chVars, bar, phase, opsLeft, kmer, key_kmer, oaMem, hist>>

\* The loop ends with probe == size(): return found (false).
OA_FindFail(r) ==
    /\ pc[r] = "find_load"
    /\ probe[r] >= size
    /\ ret' = [ret EXCEPT ![r] = [op |-> "find", val |-> FALSE]]
    /\ pc' = [pc EXCEPT ![r] = "idle"]
    /\ probe' = [probe EXCEPT ![r] = 0]
    /\ UNCHANGED <<szVars, chVars, bar, phase, opsLeft, kmer, key_kmer, val_kmer, oaMem, hist>>

\* ------------------------------------------------ open addressing: destructor
\* ~HashMap(): ad.destroy(); delete_array(data); delete_array(used).  There is
\* no barrier in it.  The driver destroys the table after its find phase;
\* pc = "destroyed" says that the rank's two arrays are released.
OA_Destruct(r) ==
    /\ pc[r] = "idle"
    /\ phase[r] = "query"
    /\ pc' = [pc EXCEPT ![r] = "destroyed"]
    /\ UNCHANGED <<szVars, chVars, bar, phase, opsLeft, kmer, key_kmer, val_kmer, probe, ret, oaMem, hist>>

\* =================================================== chaining (hash_map.hpp)
NullPtr == [rank |-> -1, addr |-> -1]
NoRpc == [to |-> -1, kind |-> "none", state |-> "none", arg |-> Blank,
          count |-> 0, ptr |-> NullPtr, found |-> FALSE]
Addrs == Ranks      \* addresses of one rank's shared segment: one per peer

\* HashMap(size): base_size = size / rank_n; remainder = size % rank_n;
\* my_size = base_size + (rank_me < remainder ? 1 : 0)
my_size_off(sz, rn, me) ==
    (sz \div rn) + (IF me <= sz % rn THEN 1 ELSE 0)

my_size_of(sz, rn, me) ==
    LET base_size == sz \div rn
        remainder == sz % rn
    IN base_size + (IF me < remainder THEN 1 ELSE 0)

LocalSize(r) == my_size_of(TableSize, RankN, r)
LocalSlots(r) == 0 .. (LocalSize(r) - 1)

get_target_rank(k) == Hash(k) % RankN
get_local_slot(h, r) == h % LocalSize(r)

\* The vector kmers_by_rank[i] built from insert's one-element vector {kmer}.
KmersByRank(rec, i) == IF get_target_rank(rec.kmer) = i THEN <<rec>> ELSE <<>>

\* local_insert on the chains bk of rank r: a node with the key is overwritten
\* in place, otherwise a new node becomes the head of the chain.
HasKey(chain, k) == \E n \in 1 .. Len(chain) : chain[n].kmer = k
local_insert_push(bk, rec, slot) ==
    [bk EXCEPT ![slot] = <<rec>> \o @]

local_insert_at(bk, rec, slot) ==
    LET chain == bk[slot]
    IN IF HasKey(chain, rec.kmer)
         THEN [bk EXCEPT ![slot] =
                 [n \in 1 .. Len(chain) |->
                     IF chain[n].kmer = rec.kmer THEN rec ELSE chain[n]]]
         ELSE [bk EXCEPT ![slot] = <<rec>> \o chain]

local_insert(bk, rec, r) ==
    local_insert_at(bk, rec, get_local_slot(Hash(rec.kmer), r))

\* local_find on the chains bk of rank r: [found, val].
local_find(bk, k, r) ==
    LET chain == bk[get_local_slot(Hash(k), r)]
    IN IF HasKey(chain, k)
         THEN [found |-> TRUE,
               val |-> chain[CHOOSE n \in 1 .. Len(chain) : chain[n].kmer = k]]
         ELSE [found |-> FALSE, val |-> Blank]

\* A rank runs the handlers of incoming rpcs only inside a wait() or a
\* barrier(): while it waits on its own rpc, in any barrier, in the
\* rget(...).wait() of the receive loop, and, once its driver is past the
\* closing barrier, in the progress of the runtime's shutdown.
AtProgress(t) ==
    \/ pc[t] \in BarrierPcs
    \/ rpcOut[t].kind # "none"
    \/ pc[t] = "recv_loop"
    \/ pc[t] = "done"

\* rpc(...).wait() has not returned yet
Busy(r) == rpcOut[r].state = "sent"

\* HashMap(size): sizes, empty buckets, null pointers, zero counts, barrier.
CH_Construct(r) ==
    /\ pc[r] = "ctor"
    /\ buckets' = [buckets EXCEPT ![r] = [b \in LocalSlots(r) |-> <<>>]]
    /\ recv_ptrs' = [recv_ptrs EXCEPT ![r] = [i \in Ranks |-> NullPtr]]
    /\ send_ptrs' = [send_ptrs EXCEPT ![r] = [i \in Ranks |-> NullPtr]]
    /\ recv_counts' = [recv_counts EXCEPT ![r] = [i \in Ranks |-> 0]]
    /\ send_counts' = [send_counts EXCEPT ![r] = [i \in Ranks |-> 0]]
    /\ my_size' = [my_size EXCEPT ![r] = my_size_of(ctor_size, rank_n, r)]
    /\ total_size' = [total_size EXCEPT ![r] = ctor_size]
    /\ pc' = [pc EXCEPT ![r] = "ctor_barrier"]
    /\ bar' = [bar EXCEPT ![r] = @ + 1]
    /\ UNCHANGED <<rank_n, ctor_size, szOut>>
    /\ UNCHANGED <<phase, opsLeft, kmer, key_kmer, val_kmer, probe, ret, oaMem,
                   hist, heap, idx, rpcOut, insLeft>>

\* insert(kmer) -> process_kmers({kmer}), steps 1 to 3 up to the reset of
\* recv_counts (no wait() in between): route, local_insert of the own kmers,
\* send_counts, std::fill(recv_counts, 0).
CH_InsertCall(r, rec) ==
    /\ pc[r] = "idle"
    /\ phase[r] = "build"
    /\ insLeft[r] > 0
    /\ insLeft' = [insLeft EXCEPT ![r] = @ - 1]
    /\ kmer' = [kmer EXCEPT ![r] = rec]
    /\ passed' = passed \cup {rec}
    /\ ret' = [ret EXCEPT ![r] = NoRet]
    /\ buckets' = IF get_target_rank(rec.kmer) = r
                    THEN [buckets EXCEPT ![r] = local_insert(@, rec, r)]
                    ELSE buckets
    /\ send_counts' = [send_counts EXCEPT ![r] =
                          [i \in Ranks |-> Len(KmersByRank(rec, i))]]
    /\ recv_counts' = [recv_counts EXCEPT ![r] = [i \in Ranks |-> 0]]
    /\ idx' = [idx EXCEPT ![r] = 0]
    /\ pc' = [pc EXCEPT ![r] = "cnt_loop"]
    /\ UNCHANGED <<szVars, bar, phase, opsLeft, key_kmer, val_kmer, probe, oaMem, okIns,
                   nTrue, commits, recv_ptrs, send_ptrs, heap, rpcOut>>

\* One iteration of the all-to-all exchange of counts: an rpc to rank i that
\* stores the count in i's recv_counts[rank_me], or the own count directly.
CH_CountStep(r) ==
    /\ pc[r] = "cnt_loop"
    /\ ~Busy(r)
    /\ idx[r] < RankN
    /\ LET i == idx[r]
       IN IF i # r
            THEN /\ rpcOut' = [rpcOut EXCEPT ![r] =
                        [NoRpc EXCEPT !.to = i, !.kind = "count", !.state = "sent",
                                      !.count = send_counts[r][i]]]
                 /\ recv_counts' = recv_counts
            ELSE /\ rpcOut' = [rpcOut EXCEPT ![r] = NoRpc]
                 /\ recv_counts' = [recv_counts EXCEPT ![r][i] = send_counts[r][i]]
    /\ idx' = [idx EXCEPT ![r] = @ + 1]
    /\ UNCHANGED <<szVars, pc, bar, phase, opsLeft, kmer, key_kmer, val_kmer, probe, ret,
                   oaMem, hist, buckets, recv_ptrs, send_ptrs, send_counts, heap,
                   insLeft>>

\* The barrier() that ends a loop of process_kmers.
LoopBarrier(p) ==
    CASE p = "cnt_loop" -> "pk_barrier1"
      [] p = "ptr_loop" -> "pk_barrier2"
      [] p = "send_loop" -> "pk_barrier3"
      [] p = "recv_loop" -> "pk_barrier4"

CH_LoopEnd(r) ==
    /\ pc[r] \in {"cnt_loop", "ptr_loop", "send_loop", "recv_loop"}
    /\ ~Busy(r)
    /\ idx[r] >= RankN
    /\ rpcOut' = [rpcOut EXCEPT ![r] = NoRpc]
    /\ pc' = [pc EXCEPT ![r] = LoopBarrier(pc[r])]
    /\ bar' = [bar EXCEPT ![r] = @ + 1]
    /\ UNCHANGED <<szVars, phase, opsLeft, kmer, key_kmer, val_kmer, probe, ret, oaMem,
                   hist, buckets, recv_ptrs, send_ptrs, recv_counts, send_counts,
                   heap, idx, insLeft>>

\* upcxx::new_array<kmer_pair>(n) on heap h: the lowest free address, its n
\* cells not yet written.  upcxx::delete_array frees an address.
FreeAddrs(h) == {a \in Addrs : h[a] = <<>>}
NewAddr(h) == CHOOSE a \in FreeAddrs(h) : \A b \in FreeAddrs(h) : a <= b
Delete(h, ptr) == IF ptr = NullPtr THEN h ELSE [h EXCEPT ![ptr.addr] = <<>>]

\* Step 4, one iteration: for a sender i with recv_counts[i] > 0 delete the
\* previous buffer, allocate a new one and rpc its pointer to i, which stores
\* it in its send_ptrs[rank_me].
CH_PtrStep(r) ==
    /\ pc[r] = "ptr_loop"
    /\ ~Busy(r)
    /\ idx[r] < RankN
    /\ LET i == idx[r]
           h1 == Delete(heap[r], recv_ptrs[r][i])
           a == NewAddr(h1)
           ptr == [rank |-> r, addr |-> a]
       IN IF i # r /\ recv_counts[r][i] > 0
            THEN /\ heap' = [heap EXCEPT ![r] =
                        [h1 EXCEPT ![a] = [n \in 1 .. recv_counts[r][i] |-> Unwritten]]]
                 /\ recv_ptrs' = [recv_ptrs EXCEPT ![r][i] = ptr]
                 /\ rpcOut' = [rpcOut EXCEPT ![r] =
                        [NoRpc EXCEPT !.to = i, !.kind = "ptr", !.state = "sent",
                                      !.ptr = ptr]]
            ELSE /\ rpcOut' = [rpcOut EXCEPT ![r] = NoRpc]
                 /\ UNCHANGED <<heap, recv_ptrs>>
    /\ idx' = [idx EXCEPT ![r] = @ + 1]
    /\ UNCHANGED <<szVars, pc, bar, phase, opsLeft, kmer, key_kmer, val_kmer, probe, ret,
                   oaMem, hist, buckets, send_ptrs, recv_counts, send_counts,
                   insLeft>>

\* rput(src, ptr, count): the cells land at ptr's address if an array lives
\* there; an rput through a pointer whose array was deleted writes freed
\* memory, which no later read of the table observes.
Rput(h, ptr, cells) ==
    IF h[ptr.addr] = <<>>
      THEN h
      ELSE [h EXCEPT ![ptr.addr] =
              [n \in 1 .. Len(@) |-> IF n <= Len(cells) THEN cells[n] ELSE @[n]]]

\* Step 5, one iteration: to a rank i with kmers to send, an rpc running
\* local_insert there when send_ptrs[i] is null, else one rput of the kmers
\* to send_ptrs[i].
CH_SendStep(r) ==
    /\ pc[r] = "send_loop"
    /\ ~Busy(r)
    /\ idx[r] < RankN
    /\ LET i == idx[r]
           out == KmersByRank(kmer[r], i)
       IN IF i # r /\ out # <<>>
            THEN IF send_ptrs[r][i] = NullPtr
                   THEN /\ rpcOut' = [rpcOut EXCEPT ![r] =
                               [NoRpc EXCEPT !.to = i, !.kind = "insert",
                                             !.state = "sent", !.arg = out[1]]]
                        /\ heap' = heap
                   ELSE /\ rpcOut' = [rpcOut EXCEPT ![r] = NoRpc]
                        /\ heap' = [heap EXCEPT ![send_ptrs[r][i].rank] =
                                       Rput(@, send_ptrs[r][i], out)]
            ELSE /\ rpcOut' = [rpcOut EXCEPT ![r] = NoRpc]
                 /\ heap' = heap
    /\ idx' = [idx EXCEPT ![r] = @ + 1]
    /\ UNCHANGED <<szVars, pc, bar, phase, opsLeft, kmer, key_kmer, val_kmer, probe, ret,
                   oaMem, hist, buckets, recv_ptrs, send_ptrs, recv_counts,
                   send_counts, insLeft>>

\* local_insert of the cells of a receive buffer, in order.
RECURSIVE InsertAll(_, _, _)
InsertAll(bk, cells, r) ==
    IF cells = <<>> THEN bk
    ELSE InsertAll(local_insert(bk, Head(cells), r), Tail(cells), r)

\* What rget yields for each cell of a buffer.
RgetAll(cells) == {got \in [1 .. Len(cells) -> IndeterminateKmerPair] :
                      \A n \in 1 .. Len(cells) : got[n] \in Rget(cells[n])}

\* Step 7, one iteration: rget and local_insert every kmer received from rank
\* i, then delete the buffer.
CH_RecvStep(r) ==
    /\ pc[r] = "recv_loop"
    /\ ~Busy(r)
    /\ idx[r] < RankN
    /\ LET i == idx[r]
       IN IF i # r /\ recv_counts[r][i] > 0 /\ recv_ptrs[r][i] # NullPtr
            THEN \E got \in RgetAll(SubSeq(heap[r][recv_ptrs[r][i].addr], 1,
                                           recv_counts[r][i])) :
                   /\ buckets' = [buckets EXCEPT ![r] = InsertAll(@, got, r)]
                   /\ heap' = [heap EXCEPT ![r] = Delete(@, recv_ptrs[r][i])]
                   /\ recv_ptrs' = [recv_ptrs EXCEPT ![r][i] = NullPtr]
            ELSE UNCHANGED <<buckets, heap, recv_ptrs>>
    /\ idx' = [idx EXCEPT ![r] = @ + 1]
    /\ UNCHANGED <<szVars, pc, bar, phase, opsLeft, kmer, key_kmer, val_kmer, probe, ret,
                   oaMem, hist, send_ptrs, recv_counts, send_counts, rpcOut,
                   insLeft>>

\* Rank t, at a progress point, runs the handler of the rpc rank s waits on.
CH_RpcExec(t, s) ==
    /\ rpcOut[s].to = t
    /\ rpcOut[s].state = "sent"
    /\ AtProgress(t)
    /\ LET m == rpcOut[s]
           res == local_find(buckets[t], m.arg.kmer, t)
       IN /\ recv_counts' = IF m.kind = "count"
                              THEN [recv_counts EXCEPT ![t][s] = m.count]
                              ELSE recv_counts
          /\ send_ptrs' = IF m.kind = "ptr"
                            THEN [send_ptrs EXCEPT ![t][s] = m.ptr]
                            ELSE send_ptrs
          /\ buckets' = IF m.kind = "insert"
                          THEN [buckets EXCEPT ![t] = local_insert(@, m.arg, t)]
                          ELSE buckets
          /\ rpcOut' = [rpcOut EXCEPT ![s] =
                 IF m.kind = "find"
                   THEN [m EXCEPT !.state = "done", !.found = res.found,
                                  !.arg = res.val]
                   ELSE [m EXCEPT !.state = "done"]]
    /\ UNCHANGED <<szVars, pc, bar, phase, opsLeft, kmer, key_kmer, val_kmer, probe, ret,
                   oaMem, hist, recv_ptrs, send_counts, heap, idx, insLeft>>

\* find(key_kmer, val_kmer): local_find on the owner, directly or by rpc.
CH_FindCall(r, k) ==
    /\ pc[r] = "idle"
    /\ phase[r] = "query"
    /\ opsLeft > 0
    /\ opsLeft' = opsLeft - 1
    /\ key_kmer' = [key_kmer EXCEPT ![r] = k]
    /\ IF get_target_rank(k) = r
         THEN LET res == local_find(buckets[r], k, r)
              IN /\ val_kmer' = [val_kmer EXCEPT ![r] =
                                    IF res.found THEN res.val ELSE Blank]
                 /\ ret' = [ret EXCEPT ![r] = [op |-> "find", val |-> res.found]]
                 /\ UNCHANGED <<pc, rpcOut>>
         ELSE /\ val_kmer' = [val_kmer EXCEPT ![r] = Blank]
              /\ ret' = [ret EXCEPT ![r] = NoRet]
              /\ pc' = [pc EXCEPT ![r] = "find_wait"]
              /\ rpcOut' = [rpcOut EXCEPT ![r] =
                     [NoRpc EXCEPT !.to = get_target_rank(k), !.kind = "find",
                                   !.state = "sent",
                                   !.arg = [kmer |-> k, ext |-> "-"]]]
    /\ UNCHANGED <<szVars, bar, phase, kmer, probe, oaMem, hist, buckets, recv_ptrs,
                   send_ptrs, recv_counts, send_counts, heap, idx, insLeft>>

\* The rpc of a remote find has returned: if (result.first) val_kmer = ...
CH_FindReturn(r) ==
    /\ pc[r] = "find_wait"
    /\ rpcOut[r].state = "done"
    /\ val_kmer' = [val_kmer EXCEPT ![r] =
                       IF rpcOut[r].found THEN rpcOut[r].arg ELSE @]
    /\ ret' = [ret EXCEPT ![r] = [op |-> "find", val |-> rpcOut[r].found]]
    /\ rpcOut' = [rpcOut EXCEPT ![r] = NoRpc]
    /\ pc' = [pc EXCEPT ![r] = "idle"]
    /\ UNCHANGED <<szVars, bar, phase, opsLeft, kmer, key_kmer, probe, oaMem, hist,
                   buckets, recv_ptrs, send_ptrs, recv_counts, send_counts, heap,
                   idx, insLeft>>

\* ~HashMap(): clear_buckets() deletes every node, then every non-null
\* recv_ptrs[i] is delete_array'd.  There is no barrier in it.  The driver
\* destroys the table after its find phase, with or without a closing barrier.
RECURSIVE DeleteAll(_, _)
DeleteAll(h, ptrs) ==
    IF ptrs = <<>> THEN h ELSE DeleteAll(Delete(h, Head(ptrs)), Tail(ptrs))

CH_Destruct(r) ==
    /\ pc[r] \in {"idle", "done"}
    /\ phase[r] = "query"
    /\ buckets' = [buckets EXCEPT ![r] = [b \in LocalSlots(r) |-> <<>>]]
    /\ heap' = [heap EXCEPT ![r] =
                   DeleteAll(@, [n \in 1 .. RankN |-> recv_ptrs[r][n - 1]])]
    /\ pc' = [pc EXCEPT ![r] = "destroyed"]
    /\ UNCHANGED <<szVars, bar, phase, opsLeft, kmer, key_kmer, val_kmer, probe, ret,
                   oaMem, hist, recv_ptrs, send_ptrs, recv_counts, send_counts,
                   idx, rpcOut, insLeft>>

\* The handler of an rpc that reaches a rank whose table is destroyed runs
\* (in the progress of the runtime's shutdown) on the released object: what it
\* writes is lost, what a find handler reads is indeterminate.
CH_RpcExecDestroyed(t, s) ==
    /\ rpcOut[s].to = t
    /\ rpcOut[s].state = "sent"
    /\ pc[t] = "destroyed"
    /\ \E found \in BOOLEAN : \E v \in IndeterminateKmerPair :
         rpcOut' = [rpcOut EXCEPT ![s] =
             IF @.kind = "find"
               THEN [@ EXCEPT !.state = "done", !.found = found, !.arg = v]
               ELSE [@ EXCEPT !.state = "done"]]
    /\ UNCHANGED <<szVars, pc, bar, phase, opsLeft, kmer, key_kmer, val_kmer, probe, ret,
                   oaMem, hist, buckets, recv_ptrs, send_ptrs, recv_counts,
                   send_counts, heap, idx, insLeft>>

\* ------------------------------------------------------------ specification
InitTable ==
    /\ pc = [r \in Ranks |-> "ctor"]
    /\ bar = [r \in Ranks |-> 0]
    /\ phase = [r \in Ranks |-> "build"]
    /\ opsLeft = MaxOps
    /\ kmer = [r \in Ranks |-> Blank]
    /\ key_kmer = [r \in Ranks |-> 1]
    /\ val_kmer = [r \in Ranks |-> Blank]
    /\ probe = [r \in Ranks |-> 0]
    /\ ret = [r \in Ranks |-> NoRet]
    /\ used = [r \in Ranks |-> [s \in Slots |-> Indeterminate]]
    /\ data = [r \in Ranks |-> [s \in Slots |-> Unwritten]]
    /\ passed = {}
    /\ okIns = {}
    /\ nTrue = 0
    /\ commits = [r \in Ranks |-> [s \in Slots |-> 0]]
    /\ recv_ptrs = [r \in Ranks |-> [i \in Ranks |-> NullPtr]]
    /\ send_ptrs = [r \in Ranks |-> [i \in Ranks |-> NullPtr]]
    /\ recv_counts = [r \in Ranks |-> [i \in Ranks |-> 0]]
    /\ send_counts = [r \in Ranks |-> [i \in Ranks |-> 0]]
    /\ heap = [r \in Ranks |-> [a \in Addrs |-> <<>>]]
    /\ idx = [r \in Ranks |-> 0]
    /\ rpcOut = [r \in Ranks |-> NoRpc]
    /\ insLeft = [r \in Ranks |-> MaxInserts]

\* Before construction: the run has RankN ranks, every rank will pass
\* TableSize, and the size members hold nothing yet.
Init ==
    /\ InitTable
    /\ buckets = [r \in Ranks |-> [b \in LocalSlots(r) |-> <<>>]]
    /\ rank_n = RankN
    /\ ctor_size = TableSize
    /\ my_size = [r \in SizeRanks \cup Ranks |-> Indeterminate]
    /\ total_size = [r \in SizeRanks \cup Ranks |-> Indeterminate]
    /\ szOut = NoOut

Next ==
    \/ \E r \in Ranks : OA_Construct(r)
    \/ \E r \in Ranks : BarrierLeave(r)
    \/ \E r \in Ranks : PhaseBarrier(r)
    \/ \E r \in Ranks : \E rec \in KmerPairs : OA_InsertCall(r, rec)
    \/ \E r \in Ranks : OA_InsertCAS(r)
    \/ \E r \in Ranks : OA_InsertRput(r)
    \/ \E r \in Ranks : OA_InsertFail(r)
    \/ \E r \in Ranks : \E k \in Keys : OA_FindCall(r, k)
    \/ \E r \in Ranks : OA_FindLoad(r)
    \/ \E r \in Ranks : OA_FindRget(r)
    \/ \E r \in Ranks : OA_FindFail(r)
    \/ \E r \in Ranks : OA_Destruct(r)

Spec == Init /\ [][Next]_vars

NextChain ==
    \/ \E r \in Ranks : CH_Construct(r)
    \/ \E r \in Ranks : BarrierLeave(r)
    \/ \E r \in Ranks : PhaseBarrier(r)
    \/ \E r \in Ranks : FinalBarrier(r)
    \/ \E r \in Ranks : \E rec \in KmerPairs : CH_InsertCall(r, rec)
    \/ \E r \in Ranks : CH_CountStep(r)
    \/ \E r \in Ranks : CH_PtrStep(r)
    \/ \E r \in Ranks : CH_SendStep(r)
    \/ \E r \in Ranks : CH_RecvStep(r)
    \/ \E r \in Ranks : CH_LoopEnd(r)
    \/ \E t \in Ranks : \E s \in Ranks : CH_RpcExec(t, s)
    \/ \E r \in Ranks : \E k \in Keys : CH_FindCall(r, k)
    \/ \E r \in Ranks : CH_FindReturn(r)
    \/ \E r \in Ranks : CH_Destruct(r)
    \/ \E t \in Ranks : \E s \in Ranks : CH_RpcExecDestroyed(t, s)

SpecChain == Init /\ [][NextChain]_vars

\* ============================================ chaining: sizes and routing
\* The constructor's size computation and the routing functions for any rank
\* count and any constructor argument (SpecSize).

tableVars == <<pc, bar, phase, opsLeft, kmer, key_kmer, val_kmer, probe, ret,
               used, data, passed, okIns, nTrue, commits, recv_ptrs, send_ptrs,
               recv_counts, send_counts, heap, idx, rpcOut, insLeft>>

\* key_kmer.hash() % upcxx::rank_n()
target_rank_of(h, rn) == h % rn

\* hash_val % my_size on uint64_t operands: with my_size = 0 the behaviour
\* is undefined; the process traps (no value, Indeterminate) or goes on with
\* some value.
local_slot_of(h, ms) ==
    IF ms = 0 THEN {Indeterminate} \cup (0 .. MaxHash) ELSE {h % ms}

Constructed(me) == my_size[me] # Indeterminate

\* HashMap(size) on rank me: my_size and total_size.
SZ_Construct(me) ==
    /\ me < rank_n
    /\ ~Constructed(me)
    /\ my_size' = [my_size EXCEPT ![me] = my_size_of(ctor_size, rank_n, me)]
    /\ total_size' = [total_size EXCEPT ![me] = ctor_size]
    /\ buckets' = [buckets EXCEPT ![me] =
                      [b \in 0 .. (my_size_of(ctor_size, rank_n, me) - 1) |-> <<>>]]
    /\ UNCHANGED <<rank_n, ctor_size, szOut, tableVars>>

\* size()
SZ_Size(me) ==
    /\ me < rank_n
    /\ Constructed(me)
    /\ szOut' = [fn |-> "size", me |-> me, arg |-> 0, val |-> total_size[me]]
    /\ UNCHANGED <<rank_n, ctor_size, my_size, total_size, buckets, tableVars>>

\* local_size()
SZ_LocalSize(me) ==
    /\ me < rank_n
    /\ Constructed(me)
    /\ szOut' = [fn |-> "local_size", me |-> me, arg |-> 0, val |-> my_size[me]]
    /\ UNCHANGED <<rank_n, ctor_size, my_size, total_size, buckets, tableVars>>

\* get_target_rank(key) for a key with hash h
SZ_GetTargetRank(me, h) ==
    /\ me < rank_n
    /\ Constructed(me)
    /\ szOut' = [fn |-> "get_target_rank", me |-> me, arg |-> h,
                 val |-> target_rank_of(h, rank_n)]
    /\ UNCHANGED <<rank_n, ctor_size, my_size, total_size, buckets, tableVars>>

\* get_local_slot(h)
SZ_GetLocalSlot(me, h) ==
    /\ me < rank_n
    /\ Constructed(me)
    /\ \E v \in local_slot_of(h, my_size[me]) :
         szOut' = [fn |-> "get_local_slot", me |-> me, arg |-> h, val |-> v]
    /\ UNCHANGED <<rank_n, ctor_size, my_size, total_size, buckets, tableVars>>

\* local_insert(kmer) on rank me, for a record process_kmers routed to me
\* (kmers_by_rank[get_target_rank(kmer.kmer)]).  With my_size = 0 the slot is
\* no element of buckets and nothing is stored.
SZ_LocalInsert(me, rec) ==
    /\ me < rank_n
    /\ Constructed(me)
    /\ target_rank_of(Hash(rec.kmer), rank_n) = me
    /\ \E slot \in local_slot_of(Hash(rec.kmer), my_size[me]) :
         /\ buckets' = IF slot \in DOMAIN buckets[me]
                         THEN [buckets EXCEPT ![me] = local_insert_at(@, rec, slot)]
                         ELSE buckets
         /\ szOut' = [fn |-> "local_insert", me |-> me, arg |-> Hash(rec.kmer),
                      val |-> slot]
    /\ UNCHANGED <<rank_n, ctor_size, my_size, total_size, tableVars>>

InitSize ==
    /\ InitTable
    /\ buckets = [r \in SizeRanks \cup Ranks |-> <<>>]
    /\ rank_n \in 1 .. MaxRanks
    /\ ctor_size \in 1 .. MaxSize
    /\ my_size = [r \in SizeRanks \cup Ranks |-> Indeterminate]
    /\ total_size = [r \in SizeRanks \cup Ranks |-> Indeterminate]
    /\ szOut = NoOut

NextSize ==
    \/ \E me \in SizeRanks : SZ_Construct(me)
    \/ \E me \in SizeRanks : SZ_Size(me)
    \/ \E me \in SizeRanks : SZ_LocalSize(me)
    \/ \E me \in SizeRanks : \E h \in 0 .. MaxHash : SZ_GetTargetRank(me, h)
    \/ \E me \in SizeRanks : \E h \in 0 .. MaxHash : SZ_GetLocalSlot(me, h)
    \/ \E me \in SizeRanks : \E rec \in KmerPairs : SZ_LocalInsert(me, rec)

SpecSize == InitSize /\ [][NextSize]_vars

\* Every rank is a running process: a step of the table's code that is
\* possible is eventually taken, handlers of incoming rpcs run at the
\* progress points, and the driver of a rank that issues no further call
\* moves on to its next barrier.  Issuing a call is the caller's choice.
ChainStep(r) ==
    \/ BarrierLeave(r)
    \/ CH_CountStep(r)
    \/ CH_PtrStep(r)
    \/ CH_SendStep(r)
    \/ CH_RecvStep(r)
    \/ CH_LoopEnd(r)
    \/ CH_FindReturn(r)
    \/ \E s \in Ranks : CH_RpcExec(r, s)
    \/ \E s \in Ranks : CH_RpcExecDestroyed(r, s)
    \/ PhaseBarrier(r)
    \/ FinalBarrier(r)

SpecChainLive ==
    Init /\ [][NextChain]_vars /\ \A r \in Ranks : WF_vars(ChainStep(r))


\* ================================================================== claims
\* Open addressing (Spec).

AllIdle == \A r \in Ranks : pc[r] = "idle"
UsedCells == {c \in Ranks \X Slots : used[c[1]][c[2]] = 1}
CellsHolding(k) == {c \in UsedCells : data[c[1]][c[2]].kmer = k}

\* C1: a find issued after the inter-phase barrier, on any rank, for the key
\* of a record whose insert (on any rank) returned true, returns true and its
\* out record equals that record.
C1_RoundTrip ==
    \A j \in Ranks :
        (phase[j] = "query" /\ ret[j].op = "find") =>
            \A rec \in okIns :
                rec.kmer = key_kmer[j] => (ret[j].val /\ val_kmer[j] = rec)

\* C3: a find issued after the inter-phase barrier returns true only for a
\* key some insert was given, and the record it hands out is one some insert
\* was given.
C3_NoPhantom ==
    \A j \in Ranks :
        (phase[j] = "query" /\ ret[j].op = "find" /\ ret[j].val) =>
            /\ \E rec \in passed : rec.kmer = key_kmer[j]
            /\ val_kmer[j] \in passed

\* C5: whenever no call is in flight, the number of inserts that returned
\* true equals the number of slots whose used flag is 1, and is at most N.
C5_CapacityBound ==
    AllIdle => (nTrue = Cardinality(UsedCells) /\ nTrue <= size)

\* C6: whenever no call is in flight, for every record whose insert returned
\* true exactly one occupied slot holds a record with its key.
C6_UniqueClaim ==
    AllIdle => \A rec \in okIns : Cardinality(CellsHolding(rec.kmer)) = 1

\* C7: no slot is committed (written with a record) by two inserts.
C7_NoDoubleCommit ==
    \A r \in Ranks : \A s \in Slots : commits[r][s] <= 1

\* C8: when find has loaded a non-zero used flag and is about to read the
\* slot's record, that record has been written by an insert.
C8_ReadCommitted ==
    \A r \in Ranks :
        pc[r] = "find_rget" =>
            data[r][SlotOf(Hash(key_kmer[r]), probe[r])] # Unwritten

\* C9: once every rank has entered the constructor's closing barrier, every
\* used flag of every rank is 0.
C9_CtorZero ==
    (\A r \in Ranks : pc[r] = "ctor_barrier") =>
        \A r \in Ranks : \A s \in Slots : used[r][s] = 0

\* C10: after construction the content of a used flag changes only from 0 to
\* 1, and only in the compare_exchange step of an insert of the rank whose
\* array it is; in particular never from 1 to 0.
C10_Monotone ==
    [][\A r \in Ranks : \A s \in Slots :
          (used[r][s] # Indeterminate /\ used'[r][s] # used[r][s]) =>
              (used[r][s] = 0 /\ used'[r][s] = 1 /\ pc[r] = "ins_cas")]_vars

\* C10 witness: on rank 0 (zeroed by the constructor) a flag was claimed and a
\* later find has loaded it.
C10_Witness ==
    \E s \in Slots : used[0][s] = 1 /\ pc[0] = "find_rget"


\* Chaining (SpecChain).

AllQuery == \A r \in Ranks : phase[r] = "query"
DistinctKey(rec) == \A o \in passed : o.kmer = rec.kmer => o = rec
StoredKeys ==
    {k \in Keys : \E r \in Ranks : \E b \in LocalSlots(r) : HasKey(buckets[r][b], k)}

\* C2: once every rank has returned from all its insert calls (every rank is
\* past the inter-phase barrier), a find on any rank for the key of a record
\* that was passed to insert, and whose key no other inserted record
\* carries, returns true with that record.
C2_NoLostInsert ==
    \A j \in Ranks :
        (AllQuery /\ ret[j].op = "find") =>
            \A rec \in passed :
                (rec.kmer = key_kmer[j] /\ DistinctKey(rec)) =>
                    (ret[j].val /\ val_kmer[j] = rec)

\* C4: an insert returns true only while the table (constructed with N
\* slots) holds at most N records with distinct keys: the insert of a new key
\* into a table already holding N is refused and stores nothing.
C4_Saturation ==
    \A r \in Ranks :
        (ret[r].op = "insert" /\ ret[r].val) => Cardinality(StoredKeys) <= TableSize

\* C11: a record stored in a chain is never changed or removed by a later
\* step of any insert or find: as long as the owner has not destroyed its
\* table, a lookup of a stored key keeps yielding the record first stored
\* (also when a second record with the same key is inserted).
C11_NeverChanged ==
    [][\A r \in Ranks : \A k \in Keys :
          (local_find(buckets[r], k, r).found /\ pc'[r] # "destroyed") =>
              local_find(buckets'[r], k, r) = local_find(buckets[r], k, r)]_vars

\* C12: find stops at the first probe whose used flag it observes as 0: while
\* a find is still probing, no slot it has already probed had its flag 0.
C12_EarlyStop ==
    \A r \in Ranks :
        pc[r] = "find_load" =>
            \A p \in 0 .. (probe[r] - 1) :
                used[r][SlotOf(Hash(key_kmer[r]), p)] # 0

\* C13: every call of the chaining insert eventually returns, whatever the
\* other ranks do (also when they issue fewer insert calls, or none).
InInsert(r) ==
    pc[r] \in {"cnt_loop", "ptr_loop", "send_loop", "recv_loop",
               "pk_barrier1", "pk_barrier2", "pk_barrier3", "pk_barrier4"}
C13_InsertReturns ==
    \A r \in Ranks : InInsert(r) ~> ~InInsert(r)

\* C14: no rank has released its table storage while another rank has an
\* insert or a find in flight that accesses that storage (an rpc on its way
\* to the rank, or a process_kmers round, which exchanges counts, pointers
\* and records with every rank).
C14_QuiescentDestroy ==
    \A t \in Ranks :
        pc[t] = "destroyed" =>
            \A s \in Ranks \ {t} :
                /\ ~(rpcOut[s].state = "sent" /\ rpcOut[s].to = t)
                /\ ~InInsert(s)

\* Chaining, sizes and routing (SpecSize).

AllConstructed == \A me \in 0 .. (rank_n - 1) : Constructed(me)
RECURSIVE SumTo(_, _)
SumTo(f, n) == IF n < 0 THEN 0 ELSE f[n] + SumTo(f, n - 1)

\* C15: for every constructor argument N and rank count R, rank r's local
\* size is floor(N/R) + (1 if r < N mod R else 0); once every rank is
\* constructed the local sizes differ by at most 1 and sum to N, and size()
\* returns N and local_size() the local size on every rank.
C15_LocalSizes ==
    /\ \A me \in 0 .. (rank_n - 1) :
         Constructed(me) =>
            /\ my_size[me] = (ctor_size \div rank_n)
                               + (IF me < ctor_size % rank_n THEN 1 ELSE 0)
            /\ total_size[me] = ctor_size
    /\ AllConstructed =>
         /\ SumTo(my_size, rank_n - 1) = ctor_size
         /\ \A a, b \in 0 .. (rank_n - 1) : my_size[a] - my_size[b] <= 1
    /\ szOut.fn = "size" => szOut.val = ctor_size
    /\ szOut.fn = "local_size" => szOut.val = my_size[szOut.me]

\* C15 witness: three ranks, a size that three does not divide, every rank
\* constructed, and local_size() just returned the larger of the two sizes.
C15_Witness ==
    /\ rank_n = 3
    /\ ctor_size % rank_n # 0
    /\ AllConstructed
    /\ szOut.fn = "local_size"
    /\ szOut.val = (ctor_size \div rank_n) + 1

\* C20: for every N >= 1 and R >= 1 every rank's local size is at least 1,
\* get_local_slot returns a slot in [0, local_size) and get_target_rank a rank
\* in [0, R).
C20_LocalSizePositive ==
    /\ \A me \in 0 .. (rank_n - 1) : Constructed(me) => my_size[me] >= 1
    /\ szOut.fn = "get_local_slot" =>
          (0 <= szOut.val /\ szOut.val < my_size[szOut.me])
    /\ szOut.fn = "get_target_rank" => (0 <= szOut.val /\ szOut.val < rank_n)

\* C16: an insert probes the slots (h + p) mod N in order and commits at the
\* first one whose used flag is 0: a probe of a slot whose flag is 0 goes on
\* to write the record there (and the insert returns true), a probe of a slot
\* whose flag is not 0 moves to the next slot, so that the insert returns
\* false only after finding all N slots occupied.
C16_LinearProbe ==
    [][\A r \in Ranks :
          LET slot == SlotOf(Hash(kmer[r].kmer), probe[r])
          IN (/\ pc[r] = "ins_cas"
              /\ probe[r] < size
              /\ used[r][slot] # Indeterminate
              /\ (pc'[r] # pc[r] \/ probe'[r] # probe[r])) =>
                 (used[r][slot] = 0 <=> pc'[r] = "ins_rput")]_vars

\* Chaining, count exchange (SpecChain).

\* C17: when rank t has passed the barrier after the count exchange of a
\* round, recv_counts[s] on t is the number of records rank s routed to t in
\* that round, for every other rank s that is in the same round.
SameRound(s, t) == InInsert(s) /\ InInsert(t) /\ insLeft[s] = insLeft[t]
C17_CountsDelivered ==
    \A t \in Ranks : \A s \in Ranks \ {t} :
        (pc[t] = "ptr_loop" /\ SameRound(s, t)) =>
            recv_counts[t][s] = Len(KmersByRank(kmer[s], t))

\* C18: no bucket chain holds two nodes with the same key, and every node in
\* bucket b of rank r has a key whose hash mod R is r and whose hash mod
\* local_size(r) is b (the chain find's routing reaches).
C18_ChainsRouted ==
    \A r \in DOMAIN buckets : \A b \in DOMAIN buckets[r] :
        LET chain == buckets[r][b]
        IN /\ \A m, n \in 1 .. Len(chain) :
                 chain[m].kmer = chain[n].kmer => m = n
           /\ \A n \in 1 .. Len(chain) :
                 /\ Hash(chain[n].kmer) % rank_n = r
                 /\ Hash(chain[n].kmer) % my_size[r] = b

\* C18 witness: both payloads of key 1 have been passed to insert, and the
\* chain that holds key 1 holds a second key as well.
C18_Witness ==
    /\ [kmer |-> 1, ext |-> "A"] \in passed
    /\ [kmer |-> 1, ext |-> "B"] \in passed
    /\ \E r \in DOMAIN buckets : \E b \in DOMAIN buckets[r] :
          Len(buckets[r][b]) = 2 /\ HasKey(buckets[r][b], 1)

\* Open addressing, find's out record (Spec).

\* C19: a find that returned false has left the caller's out record as it
\* was before the call.
C19_OutUntouched ==
    \A r \in Ranks :
        (ret[r].op = "find" /\ ~ret[r].val) => val_kmer[r] = Blank

====
